---- MODULE Spec2Model ----
(***************************************************************************)
(* StockDescriptiveStats (src/ticker/2(1).py): the CRSP / CCM / Compustat  *)
(* point-in-time join of calculate_indicators with its three join tiers,   *)
(* the book-equity fallback chains, the momentum window and the fail-soft  *)
(* boundaries of calculate_indicators and calculate_descriptive_stats;     *)
(* the statistics of calculate_descriptive_stats on a final panel, the     *)
(* fetch steps of get_stock_data and the stage sequence of run_analysis.   *)
(*                                                                         *)
(* Dates are calendar dates <<year, month, day>>.  A missing value (NaN,   *)
(* NaT, None) is the empty tuple NA, a present value v is <<v>>.           *)
(***************************************************************************)
EXTENDS Integers, Sequences, FiniteSets, TLC

VARIABLES
    crsp_data,    \* self.crsp_data: rows (permno, date, ret, prc, shrout), or None
    ccm_link,     \* self.ccm_link: rows (gvkey, permno, linkdt, linkenddt), or None
    comp_data,    \* self.comp_data: rows (gvkey, datadate, at, lt, ...), or None
    crsp_ccm,     \* local crsp_ccm of calculate_indicators
    comp,         \* local comp of calculate_indicators
    merged,       \* local merged of calculate_indicators
    final_stats,  \* self.final_stats, None until calculate_indicators succeeds
    pc,           \* position inside calculate_indicators / calculate_descriptive_stats
    tried,        \* the join tiers entered so far
    tier,         \* the tier whose result is in merged (0: none)
    ci_ret,       \* value returned by calculate_indicators
    ds_ret,       \* value returned by calculate_descriptive_stats
    escaped,      \* an exception left one of the two methods
    loaded,       \* get_stock_data has filled the three tables (else they are None)
    fund,         \* one Compustat record, input of the book-equity chain
    fund_out,     \* its (ps, se, be)
    rets,         \* one security's monthly returns in date order (numerators over RetDen)
    mom_out,      \* the mom column computed from rets
    results,           \* self.results, None until the statistics succeed
    detailed_results,  \* self.detailed_results
    summary_table,     \* self.summary_table
    percentile_table,  \* self.percentile_table
    tickers,      \* self.tickers: None, or the length of the list
    chunk_i,      \* loop variable i of get_stock_data
    all_crsp_data,\* local all_crsp_data of get_stock_data: the non-empty chunks
    gsd_ret,      \* value returned by get_stock_data
    db,           \* self.db: None, or the connection object (named by the call that opened it)
    started,      \* the stages the current run_analysis call has started, in order
    returns,      \* the values those stages returned, in order
    closes,       \* the connections close() was called on during the current call
    run_ret,      \* value returned by run_analysis
    runs          \* number of run_analysis calls made on the object

vars == <<crsp_data, ccm_link, comp_data, crsp_ccm, comp, merged, final_stats,
          pc, tried, tier, ci_ret, ds_ret, escaped, loaded, fund, fund_out, rets, mom_out,
          results, detailed_results, summary_table, percentile_table,
          tickers, chunk_i, all_crsp_data, gsd_ret,
          db, started, returns, closes, run_ret, runs>>

joinVars == <<crsp_data, ccm_link, comp_data, crsp_ccm, comp, merged, final_stats,
              pc, tried, tier, ci_ret, ds_ret, escaped, loaded>>

beVars == <<fund, fund_out>>

momVars == <<rets, mom_out>>

statVars == <<results, detailed_results, summary_table, percentile_table>>

fetchVars == <<tickers, chunk_i, all_crsp_data, gsd_ret>>

runVars == <<db, started, returns, closes, run_ret, runs>>

----------------------------------------------------------------------------
(* Missing values *)

NA == <<>>

Some(v) == <<v>>

Val(x) == x[1]

notna(x) == x # NA

\* Series.fillna(other): the first operand unless it is missing
fillna(x, other) == IF notna(x) THEN x ELSE other

\* NaN-propagating arithmetic of two numeric columns
AddNA(x, y) == IF notna(x) /\ notna(y) THEN Some(Val(x) + Val(y)) ELSE NA

SubNA(x, y) == IF notna(x) /\ notna(y) THEN Some(Val(x) - Val(y)) ELSE NA

----------------------------------------------------------------------------
(* Calendar *)

IsLeap(y) == (y % 4 = 0 /\ y % 100 # 0) \/ y % 400 = 0

DaysInMonth(y, m) ==
    IF m = 2 THEN (IF IsLeap(y) THEN 29 ELSE 28)
    ELSE IF m \in {4, 6, 9, 11} THEN 30 ELSE 31

Year(d) == d[1]

Month(d) == d[2]

\* d1 <= d2 on timestamps
DateLE(d1, d2) ==
    \/ d1[1] < d2[1]
    \/ d1[1] = d2[1] /\ d1[2] < d2[2]
    \/ d1[1] = d2[1] /\ d1[2] = d2[2] /\ d1[3] <= d2[3]

DateLT(d1, d2) == DateLE(d1, d2) /\ d1 # d2

RECURSIVE DaysBeforeMonth(_, _)
DaysBeforeMonth(y, m) ==
    IF m = 1 THEN 0 ELSE DaysBeforeMonth(y, m - 1) + DaysInMonth(y, m - 1)

\* proleptic Gregorian ordinal of a date (what a Timedelta in days is a difference of)
DayNumber(d) ==
    LET y == d[1] - 1
    IN  365 * y + (y \div 4) - (y \div 100) + (y \div 400)
        + DaysBeforeMonth(d[1], d[2]) + d[3]

\* date + pd.DateOffset(months=n): the month moves, the day is clamped to the
\* length of the target month
DateOffsetMonths(d, n) ==
    LET mi == (d[2] - 1) + n
        y  == d[1] + (mi \div 12)
        m  == (mi % 12) + 1
        dim == DaysInMonth(y, m)
    IN  <<y, m, IF d[3] > dim THEN dim ELSE d[3]>>

\* months of reporting lag applied to datadate
AvailabilityLagMonths == 6

\* pd.Timedelta(days=365 * 5)
ToleranceDays == 1825

----------------------------------------------------------------------------
(* Sequence helpers *)

Range(s) == {s[i] : i \in 1..Len(s)}

\* column lists the code sorts and de-duplicates on
RowKey(cols, r) ==
    CASE cols = "gvkey_date"      -> <<r.gvkey, r.date>>
      [] cols = "gvkey_available" -> <<r.gvkey, r.available_date>>
      [] cols = "permno_date"     -> <<r.permno, r.date>>
      [] cols = "date"            -> <<0, r.date>>
      [] cols = "available"       -> <<0, r.available_date>>
      [] cols = "gvkey_year_datadate" -> <<r.gvkey, r.datadate>>  \* year is datadate's year

\* row a sorts before or with row b on the columns cols
RowLE(cols, a, b) ==
    LET ka == RowKey(cols, a)
        kb == RowKey(cols, b)
    IN  \/ ka[1] < kb[1]
        \/ ka[1] = kb[1] /\ DateLE(ka[2], kb[2])

\* stable insertion of r into a sequence sorted on cols
RECURSIVE InsertSorted(_, _, _)
InsertSorted(r, s, cols) ==
    IF s = <<>> THEN <<r>>
    ELSE IF RowLE(cols, Head(s), r) THEN <<Head(s)>> \o InsertSorted(r, Tail(s), cols)
         ELSE <<r>> \o s

\* DataFrame.sort_values on several columns: a stable sort
RECURSIVE SortBy(_, _)
SortBy(s, cols) ==
    IF s = <<>> THEN <<>>
    ELSE InsertSorted(s[Len(s)], SortBy(SubSeq(s, 1, Len(s) - 1), cols), cols)

\* DataFrame.drop_duplicates(subset=cols): keeps the first row of every key
RECURSIVE DropDuplicates(_, _)
DropDuplicates(s, cols) ==
    IF s = <<>> THEN <<>>
    ELSE LET init == DropDuplicates(SubSeq(s, 1, Len(s) - 1), cols)
             r == s[Len(s)]
         IN  IF \E i \in 1..Len(init) : RowKey(cols, init[i]) = RowKey(cols, r)
             THEN init ELSE Append(init, r)

\* is_monotonic_increasing of a column of timestamps (non-decreasing)
IsMonotonicDates(ds) == \A i \in 1..(Len(ds) - 1) : DateLE(ds[i], ds[i + 1])

----------------------------------------------------------------------------
(* Book equity (calculate_indicators, step 2) *)

\* comp['txditc'].fillna(0)
TxditcFilled(r) == fillna(r.txditc, Some(0))

\* comp['ps']: pstkrv, else pstkl, else pstk, else 0
PreferredStock(r) == fillna(fillna(fillna(r.pstkrv, r.pstkl), r.pstk), Some(0))

\* the second candidate built on the resolved preferred stock ps
StockholdersEquityOnPs(r) ==
    fillna(fillna(fillna(r.seq, AddNA(r.ceq, PreferredStock(r))),
                  SubNA(r.at, r.lt)),
           Some(0))

\* comp['se']: seq, else ceq + pstk.fillna(0), else at - lt, else 0
StockholdersEquity(r) ==
    fillna(fillna(fillna(r.seq, AddNA(r.ceq, fillna(r.pstk, Some(0)))),
                  SubNA(r.at, r.lt)),
           Some(0))

\* comp['be'] = se + txditc - ps
BookEquity(r) == SubNA(AddNA(StockholdersEquity(r), TxditcFilled(r)), PreferredStock(r))

----------------------------------------------------------------------------
(* calculate_indicators, steps 1 to 3: link merge and Compustat preparation *)

\* self.crsp_data.merge(self.ccm_link, on='permno', how='left'): every CRSP row
\* once per link row of its permno, in link order; once with empty link columns
\* when the permno has no link row
RECURSIVE MergeLink(_, _)
MergeLink(crsp, link) ==
    IF crsp = <<>> THEN <<>>
    ELSE LET c == Head(crsp)
             ls == SelectSeq(link, LAMBDA l : l.permno = c.permno)
             one(l) == [permno |-> c.permno, date |-> c.date, ret |-> c.ret,
                        prc |-> c.prc, shrout |-> c.shrout,
                        gvkey |-> l.gvkey, linkdt |-> l.linkdt, linkenddt |-> l.linkenddt]
             rows == IF ls = <<>>
                     THEN <<[permno |-> c.permno, date |-> c.date, ret |-> c.ret,
                             prc |-> c.prc, shrout |-> c.shrout,
                             gvkey |-> 0, linkdt |-> NA, linkenddt |-> NA]>>
                     ELSE [i \in 1..Len(ls) |-> one(ls[i])]
         IN  rows \o MergeLink(Tail(crsp), link)

\* the validity filter of the link: linkdt <= date <= linkenddt and gvkey present
LinkValid(r) ==
    /\ r.gvkey # 0
    /\ notna(r.linkdt) /\ DateLE(Val(r.linkdt), r.date)
    /\ notna(r.linkenddt) /\ DateLE(r.date, Val(r.linkenddt))

CrspCcm(crsp, link) == SelectSeq(MergeLink(crsp, link), LinkValid)

\* comp with be and available_date, the records with be > 0 only
CompWithBe(cd) ==
    LET withBe == [i \in 1..Len(cd) |->
                     [gvkey |-> cd[i].gvkey, datadate |-> cd[i].datadate,
                      be |-> BookEquity(cd[i]),
                      available_date |-> DateOffsetMonths(cd[i].datadate, AvailabilityLagMonths)]]
    IN  SelectSeq(withBe, LAMBDA r : notna(r.be) /\ Val(r.be) > 0)

\* crsp_ccm as the join tiers see it: sorted on (gvkey, date), one row per (gvkey, date)
CrspCcmPrepared(cc) == DropDuplicates(SortBy(cc, "gvkey_date"), "gvkey_date")

\* comp as the join tiers see it: sorted on (gvkey, available_date), one row per key
CompPrepared(cd) ==
    DropDuplicates(SortBy(CompWithBe(cd), "gvkey_available"), "gvkey_available")

----------------------------------------------------------------------------
(* calculate_indicators, step 3: the three join tiers *)

\* the date column of crsp_ccm and the available_date column of comp
DateColumn(s) == [i \in 1..Len(s) |-> s[i].date]

AvailableColumn(s) == [i \in 1..Len(s) |-> s[i].available_date]

\* the row of crsp_ccm extended with a matched record's be (or with no match)
Matched(c, k) == c @@ [be |-> k.be, available_date |-> Some(k.available_date)]

Unmatched(c) == c @@ [be |-> NA, available_date |-> NA]

\* index of the last row of cp for gvkey g with available_date <= d, 0 if none
\* (cp is sorted on (gvkey, available_date))
LastAtOrBefore(cp, g, d) ==
    LET idx == {i \in 1..Len(cp) : cp[i].gvkey = g /\ DateLE(cp[i].available_date, d)}
    IN  IF idx = {} THEN 0 ELSE CHOOSE i \in idx : \A j \in idx : j <= i

\* pd.merge_asof raises ValueError unless the left and the right time keys are
\* each non-decreasing over the whole table (the by-column does not relax this);
\* the code raises itself when a gvkey group is not sorted
Tier1Raises(cc, cp) ==
    LET ccSorted == SortBy(cc, "gvkey_date")
        cpSorted == SortBy(cp, "gvkey_available")
        groupsSorted ==
            /\ \A i, j \in 1..Len(ccSorted) :
                 (i < j /\ ccSorted[i].gvkey = ccSorted[j].gvkey)
                     => DateLE(ccSorted[i].date, ccSorted[j].date)
            /\ \A i, j \in 1..Len(cpSorted) :
                 (i < j /\ cpSorted[i].gvkey = cpSorted[j].gvkey)
                     => DateLE(cpSorted[i].available_date, cpSorted[j].available_date)
    IN  \/ ~groupsSorted
        \/ ~IsMonotonicDates(DateColumn(ccSorted))
        \/ ~IsMonotonicDates(AvailableColumn(cpSorted))

\* merge_asof(direction='backward', by='gvkey', tolerance=5*365 days): a left join;
\* every row of crsp_ccm is kept, be is missing where nothing matches
Tier1Rows(cc, cp) ==
    LET ccSorted == SortBy(cc, "gvkey_date")
        cpSorted == SortBy(cp, "gvkey_available")
        one(c) ==
            LET i == LastAtOrBefore(cpSorted, c.gvkey, c.date)
            IN  IF i = 0 THEN Unmatched(c)
                ELSE IF DayNumber(c.date) - DayNumber(cpSorted[i].available_date)
                            > ToleranceDays
                     THEN Unmatched(c)
                     ELSE Matched(c, cpSorted[i])
    IN  [n \in 1..Len(ccSorted) |-> one(ccSorted[n])]

\* crsp_ccm['gvkey'].unique(): the gvkeys in order of first appearance
RECURSIVE UniqueGvkeys(_)
UniqueGvkeys(cc) ==
    IF cc = <<>> THEN <<>>
    ELSE LET init == UniqueGvkeys(SubSeq(cc, 1, Len(cc) - 1))
             g == cc[Len(cc)].gvkey
         IN  IF \E i \in 1..Len(init) : init[i] = g THEN init ELSE Append(init, g)

\* side='left' in place of side='right': the number of elements < v
SearchSortedLeft(a, v) == Cardinality({i \in 1..Len(a) : DateLT(a[i], v)})

\* np.searchsorted(a, v, side='right') on a sorted array of dates: the number of
\* elements <= v
SearchSortedRight(a, v) == Cardinality({i \in 1..Len(a) : DateLE(a[i], v)})

\* the rows tier 2 appends for one gvkey
Tier2Group(cc, cp, g) ==
    LET crsp_subset == SortBy(SelectSeq(cc, LAMBDA r : r.gvkey = g), "date")
        comp_subset == SortBy(SelectSeq(cp, LAMBDA r : r.gvkey = g), "available")
        comp_dates == AvailableColumn(comp_subset)
        index(c) == SearchSortedRight(comp_dates, c.date)   \* 1-based: indices + 1
        valid_crsp == SelectSeq(crsp_subset, LAMBDA c : index(c) >= 1)
    IN  IF comp_subset = <<>> THEN <<>>
        ELSE [n \in 1..Len(valid_crsp) |->
                Matched(valid_crsp[n], comp_subset[index(valid_crsp[n])])]

RECURSIVE Tier2Concat(_, _, _)
Tier2Concat(cc, cp, gs) ==
    IF gs = <<>> THEN <<>>
    ELSE Tier2Group(cc, cp, Head(gs)) \o Tier2Concat(cc, cp, Tail(gs))

Tier2Rows(cc, cp) == Tier2Concat(cc, cp, UniqueGvkeys(cc))

\* tier 2 raises ValueError when merged_list stays empty
Tier2Raises(cc, cp) == Tier2Rows(cc, cp) = <<>>

\* comp.sort_values(['gvkey','year','datadate']).groupby(['gvkey','year']).last():
\* index in cpY of the last record of (g, y), 0 if none
LastOfYear(cpY, g, y) ==
    LET idx == {i \in 1..Len(cpY) : cpY[i].gvkey = g /\ Year(cpY[i].datadate) = y}
    IN  IF idx = {} THEN 0 ELSE CHOOSE i \in idx : \A j \in idx : j <= i

\* crsp_ccm.merge(comp_yearly, on=['gvkey','year'], how='left'), before the notna
\* filter; available_date is not a column of this result: it records the
\* availability date of the record whose be was attached
Tier3Rows(cc, cp) ==
    LET cpY == SortBy(cp, "gvkey_year_datadate")
        one(c) ==
            LET i == LastOfYear(cpY, c.gvkey, Year(c.date))
            IN  IF i = 0 THEN Unmatched(c) ELSE Matched(c, cpY[i])
    IN  [n \in 1..Len(cc) |-> one(cc[n])]

\* merged[merged['be'].notna()]
BeNotNa(m) == SelectSeq(m, LAMBDA r : notna(r.be))

----------------------------------------------------------------------------
(* calculate_indicators, step 4: characteristics *)

\* returns are the rationals k / RetDen; a return cell holds the numerator k
RetDen == 2

\* rolling(window=12, min_periods=8)
Window == 12

MinPeriods == 8

RECURSIVE Pow(_, _)
Pow(b, e) == IF e = 0 THEN 1 ELSE b * Pow(b, e - 1)

\* numerator over RetDen^n of the product of (1 + x) over the n present cells of w
RECURSIVE ProdOnePlus(_)
ProdOnePlus(w) ==
    IF w = <<>> THEN 1
    ELSE (IF notna(Head(w)) THEN RetDen + Val(Head(w)) ELSE 1) * ProdOnePlus(Tail(w))

CountPresent(w) == Cardinality({i \in 1..Len(w) : notna(w[i])})

\* the rows the rolling window of row i covers: the row itself and the Window - 1
\* rows before it
WindowOf(rs, i) == SubSeq(rs, IF i > Window THEN i - Window + 1 ELSE 1, i)

\* ret_cumulative of row i as a numerator over RetDen^Window: (1 + x).prod() - 1 over
\* the window, missing when the window holds fewer than MinPeriods returns
RetCumulative(rs, i) ==
    LET w == WindowOf(rs, i)
        n == CountPresent(w)
    IN  IF n < MinPeriods THEN NA
        ELSE Some((ProdOnePlus(w) - Pow(RetDen, n)) * Pow(RetDen, Window - n))

\* ret_lag1 of row i: groupby('permno')['ret'].shift(1)
RetLag1(rs, i) == IF i = 1 THEN NA ELSE rs[i - 1]

\* mom of row i as a numerator over RetDen^Window: ret_cumulative - ret_lag1
Mom(rs, i) ==
    LET c == RetCumulative(rs, i)
        l == RetLag1(rs, i)
    IN  IF notna(c) /\ notna(l)
        THEN Some(Val(c) - Val(l) * Pow(RetDen, Window - 1))
        ELSE NA

\* the mom column of one permno's rows in date order
MomColumn(rs) == [i \in 1..Len(rs) |-> Mom(rs, i)]

\* a cell of a numeric column that holds text
TextCell == <<0, 0>>

IsText(x) == Len(x) = 2

AbsInt(v) == IF v < 0 THEN 0 - v ELSE v

\* me = |prc| * shrout
MarketEquity(r) ==
    IF notna(r.prc) /\ notna(r.shrout) THEN Some(AbsInt(Val(r.prc)) * Val(r.shrout)) ELSE NA

\* bm = be * 1000 / me as the pair (numerator, denominator); a zero me gives an
\* infinite, not a missing, ratio
BookToMarket(r) ==
    LET me == MarketEquity(r)
    IN  IF notna(r.be) /\ notna(me) THEN Some(<<Val(r.be) * 1000, Val(me)>>) ELSE NA

\* size = log(me), kept symbolic
LogSize(r) ==
    LET me == MarketEquity(r)
    IN  IF notna(me) THEN Some([log |-> Val(me)]) ELSE NA

\* .abs() on a column holding text raises TypeError
IndicatorsRaise(m) == \E i \in 1..Len(m) : IsText(m[i].prc) \/ IsText(m[i].shrout)

\* df with ret_lag1, ret_cumulative, mom, year, month and n, sorted on (permno, date)
IndicatorRows(m) ==
    LET df == SortBy(m, "permno_date")
        grp(i) == {j \in 1..Len(df) : df[j].permno = df[i].permno}
        pos(i) == Cardinality({j \in grp(i) : j <= i})
        first(i) == CHOOSE j \in grp(i) : \A k \in grp(i) : j <= k
        grpRets(i) == [k \in 1..Cardinality(grp(i)) |-> df[first(i) + k - 1].ret]
        count(i) == Cardinality({j \in 1..Len(df) :
                        Year(df[j].date) = Year(df[i].date)
                        /\ Month(df[j].date) = Month(df[i].date)})
    IN  [i \in 1..Len(df) |->
            [permno |-> df[i].permno, date |-> df[i].date,
             year |-> Year(df[i].date), month |-> Month(df[i].date),
             ret |-> df[i].ret, size |-> LogSize(df[i]), bm |-> BookToMarket(df[i]),
             mom |-> Mom(grpRets(i), pos(i)), n |-> count(i)]]

\* a dropna over every monitored column, mom included
FinalStatsAllColumns(m) ==
    SelectSeq(IndicatorRows(m),
              LAMBDA r : notna(r.ret) /\ notna(r.size) /\ notna(r.bm) /\ notna(r.mom))

\* df[final_columns].dropna(subset=['ret', 'size', 'bm'])
FinalStats(m) ==
    SelectSeq(IndicatorRows(m), LAMBDA r : notna(r.ret) /\ notna(r.size) /\ notna(r.bm))

----------------------------------------------------------------------------
(* Inputs *)

MaxObs == 2

MaxLinks == 2

MaxComp == 2

Permnos == {1, 2}

Gvkeys == {1, 2}

ObsDates == {<<2000, 2, 29>>, <<2001, 1, 31>>, <<2006, 2, 28>>}

DataDates == {<<1999, 8, 31>>, <<2000, 7, 31>>}

\* linkenddt.fillna('2024-12-31')
OpenEnded == <<2024, 12, 31>>

ObsRow(p, d) ==
    [permno |-> p, date |-> d, ret |-> Some(1),
     prc |-> IF p = 2 /\ Year(d) = 2001 THEN NA ELSE Some(0 - 2),
     shrout |-> Some(3)]

ObsCandidates ==
    {ObsRow(p, d) : p \in Permnos, d \in ObsDates} \ {ObsRow(2, <<2006, 2, 28>>)}

LinkCandidates ==
    {[gvkey |-> g, permno |-> 1, linkdt |-> Some(<<1990, 1, 1>>),
      linkenddt |-> Some(OpenEnded)] : g \in Gvkeys}
    \cup
    {[gvkey |-> 1, permno |-> 2, linkdt |-> Some(<<1990, 1, 1>>),
      linkenddt |-> Some(<<2000, 12, 31>>)],
     [gvkey |-> 2, permno |-> 2, linkdt |-> Some(<<2000, 6, 1>>),
      linkenddt |-> Some(OpenEnded)]}

\* accounting fields of the Compustat candidates with be = 5 and be = 2
Profiles ==
    {[at |-> Some(9), lt |-> Some(4), pstk |-> NA, ceq |-> NA, txditc |-> NA,
      pstkrv |-> NA, seq |-> Some(5), pstkl |-> NA],
     [at |-> Some(9), lt |-> Some(4), pstk |-> Some(1), ceq |-> Some(2), txditc |-> NA,
      pstkrv |-> NA, seq |-> NA, pstkl |-> NA]}

\* a record with be = 0
ZeroBeRecord ==
    [gvkey |-> 1, datadate |-> <<2000, 7, 31>>,
     at |-> Some(4), lt |-> Some(4), pstk |-> NA, ceq |-> NA, txditc |-> NA,
     pstkrv |-> NA, seq |-> NA, pstkl |-> NA]

CompCandidates ==
    {[gvkey |-> g, datadate |-> d] @@ f : g \in Gvkeys, d \in DataDates, f \in Profiles}
    \cup {ZeroBeRecord}

RECURSIVE SetToSeq(_)
SetToSeq(S) ==
    IF S = {} THEN <<>>
    ELSE LET x == CHOOSE y \in S : TRUE IN <<x>> \o SetToSeq(S \ {x})

\* the tables of at most n distinct rows of S, in every order
SeqsUpTo(S, n) ==
    {t \in UNION {[1..k -> S] : k \in 0..n} :
        \A i, j \in 1..Len(t) : i # j => t[i] # t[j]}

\* the CRSP query orders by permno, date and the rows are unique on (permno, date)
CrspTables ==
    {SortBy(SetToSeq(S), "permno_date") :
        S \in {T \in SUBSET ObsCandidates : Cardinality(T) \in 1..MaxObs}}

\* a CRSP table whose prc column holds text
MalformedCrsp ==
    <<[permno |-> 1, date |-> <<2000, 2, 29>>, ret |-> Some(1), prc |-> TextCell,
       shrout |-> Some(3)]>>

\* the link query has no ORDER BY
LinkTables == SeqsUpTo(LinkCandidates, MaxLinks)

\* the Compustat query orders by gvkey, datadate
CompTables ==
    {t \in SeqsUpTo(CompCandidates, MaxComp) :
        \A i \in 1..(Len(t) - 1) : RowLE("gvkey_year_datadate", t[i], t[i + 1])}

----------------------------------------------------------------------------
(* calculate_indicators and calculate_descriptive_stats as steps *)

\* the handlers without the outer try of calculate_indicators: an exception of
\* tier 3 or of a later step leaves the method
HandlerInnerOnly(site) ==
    CASE site = "tier1" -> "tier2"
      [] site = "tier2" -> "tier3"
      [] site = "stats" -> "ds_false"
      [] OTHER -> "escape"

\* where an exception raised at a site of the two methods lands: the except clause
\* of tier 1 starts tier 2, that of tier 2 starts tier 3, the outer except clauses
\* return False; the guards before the try blocks are not covered
Handler(site) ==
    CASE site = "tier1" -> "tier2"
      [] site = "tier2" -> "tier3"
      [] site \in {"link", "comp", "tier3", "filter", "indicators"} -> "ci_false"
      [] site = "stats" -> "ds_false"
      [] OTHER -> "escape"

\* the state after an exception raised at site inside calculate_indicators
CiRaise(site) ==
    LET h == Handler(site)
    IN  /\ pc' = IF h \in {"tier2", "tier3"} THEN h ELSE "ci_done"
        /\ ci_ret' = IF h = "ci_false" THEN Some(FALSE) ELSE ci_ret
        /\ escaped' = (escaped \/ h = "escape")

CiReturn(v) == pc' = "ci_done" /\ ci_ret' = Some(v) /\ escaped' = escaped

CiGoto(l) == pc' = l /\ ci_ret' = ci_ret /\ escaped' = escaped

\* the guard before the try block
CiGuard ==
    /\ pc = "ci_start"
    /\ IF ~loaded THEN CiReturn(FALSE) ELSE CiGoto("link")
    /\ UNCHANGED <<crsp_data, ccm_link, comp_data, crsp_ccm, comp, merged, final_stats,
                   tried, tier, ds_ret, loaded>>

\* step 1: merge CRSP with the link table and keep the valid links
LinkStep ==
    /\ pc = "link"
    /\ crsp_ccm' = CrspCcm(crsp_data, ccm_link)
    /\ IF crsp_ccm' = <<>> THEN CiReturn(FALSE) ELSE CiGoto("comp")
    /\ UNCHANGED <<crsp_data, ccm_link, comp_data, comp, merged, final_stats,
                   tried, tier, ds_ret, loaded>>

\* steps 2 and 3 up to the join: book equity, availability date, sort, de-duplicate
CompStep ==
    /\ pc = "comp"
    /\ comp' = CompPrepared(comp_data)
    /\ crsp_ccm' = CrspCcmPrepared(crsp_ccm)
    /\ CiGoto("tier1")
    /\ UNCHANGED <<crsp_data, ccm_link, comp_data, merged, final_stats,
                   tried, tier, ds_ret, loaded>>

\* tier 1: merge_asof
Tier1Step ==
    /\ pc = "tier1"
    /\ tried' = tried \cup {1}
    /\ IF Tier1Raises(crsp_ccm, comp)
       THEN CiRaise("tier1") /\ UNCHANGED <<merged, tier>>
       ELSE merged' = Tier1Rows(crsp_ccm, comp) /\ tier' = 1 /\ CiGoto("filter")
    /\ UNCHANGED <<crsp_data, ccm_link, comp_data, crsp_ccm, comp, final_stats,
                   ds_ret, loaded>>

\* tier 2: per-gvkey searchsorted
Tier2Step ==
    /\ pc = "tier2"
    /\ tried' = tried \cup {2}
    /\ IF Tier2Raises(crsp_ccm, comp)
       THEN CiRaise("tier2") /\ UNCHANGED <<merged, tier>>
       ELSE merged' = Tier2Rows(crsp_ccm, comp) /\ tier' = 2 /\ CiGoto("filter")
    /\ UNCHANGED <<crsp_data, ccm_link, comp_data, crsp_ccm, comp, final_stats,
                   ds_ret, loaded>>

\* tier 3: calendar-year merge, with its own notna filter and empty check
Tier3Step ==
    /\ pc = "tier3"
    /\ tried' = tried \cup {3}
    /\ merged' = BeNotNa(Tier3Rows(crsp_ccm, comp))
    /\ IF merged' = <<>>
       THEN CiReturn(FALSE) /\ tier' = tier
       ELSE tier' = 3 /\ CiGoto("filter")
    /\ UNCHANGED <<crsp_data, ccm_link, comp_data, crsp_ccm, comp, final_stats,
                   ds_ret, loaded>>

\* keep the rows with a book equity; no row left: return False
FilterStep ==
    /\ pc = "filter"
    /\ merged' = BeNotNa(merged)
    /\ IF merged' = <<>> THEN CiReturn(FALSE) ELSE CiGoto("indicators")
    /\ UNCHANGED <<crsp_data, ccm_link, comp_data, crsp_ccm, comp, final_stats,
                   tried, tier, ds_ret, loaded>>

\* step 4: characteristics and final_stats
IndicatorsStep ==
    /\ pc = "indicators"
    /\ IF IndicatorsRaise(merged)
       THEN CiRaise("indicators") /\ final_stats' = final_stats
       ELSE final_stats' = FinalStats(merged) /\ CiReturn(TRUE)
    /\ UNCHANGED <<crsp_data, ccm_link, comp_data, crsp_ccm, comp, merged,
                   tried, tier, ds_ret, loaded>>

\* variables = ['ret', 'size', 'bm', 'mom', 'n']
Variables == <<"ret", "size", "bm", "mom", "n">>

\* the variables of the else branch of the loop
CrossSectionVariables == {"ret", "size", "bm", "mom"}

\* extended_percentiles, in percent
ExtendedPercentiles == (1..5) \cup {5 * k : k \in 2..19} \cup (96..99)

\* the columns of the monthly table other than the percentile columns
StatColumns == {"count", "mean", "std", "min", "max", "skew", "kurt"}

\* a statistic of the sample a record keeps in its field data: present, under its
\* name, when the sample has at least k values, else NaN
Statistic(name, data, k) == IF Len(data) >= k THEN Some(name) ELSE NA

\* Series.dropna()
DropNa(col) == SelectSeq(col, notna)

MonthLT(a, b) == a[1] < b[1] \/ (a[1] = b[1] /\ a[2] < b[2])

RECURSIVE SortMonths(_)
SortMonths(S) ==
    IF S = {} THEN <<>>
    ELSE LET m == CHOOSE x \in S : \A y \in S \ {x} : MonthLT(x, y)
         IN  <<m>> \o SortMonths(S \ {m})

\* the keys of groupby(['year', 'month']), which sorts them
GroupKeys(fs) == SortMonths({<<fs[i].year, fs[i].month>> : i \in 1..Len(fs)})

\* the column var of the rows of one (year, month)
Group(fs, ym, var) ==
    LET g == SelectSeq(fs, LAMBDA r : r.year = ym[1] /\ r.month = ym[2])
    IN  [i \in 1..Len(g) |-> g[i][var]]

\* calculate_cross_sectional_stats: the statistics of one month; std needs two
\* values, skew three, kurt four
calculate_cross_sectional_stats(group) ==
    LET data == DropNa(group)
    IN  IF Len(data) = 0
        THEN [count |-> 0, data |-> data, mean |-> NA, std |-> NA, min |-> NA,
              max |-> NA, skew |-> NA, kurt |-> NA,
              pct |-> [p \in ExtendedPercentiles |-> NA]]
        ELSE [count |-> Len(data), data |-> data, mean |-> Some("mean"),
              std |-> Statistic("std", data, 2), min |-> Some("min"),
              max |-> Some("max"), skew |-> Statistic("skew", data, 3),
              kurt |-> Statistic("kurt", data, 4),
              pct |-> [p \in ExtendedPercentiles |-> Some("percentile")]]

\* the monthly table over the given group keys, indexed by the first day of the month
MonthlyRows(fs, keys, var) ==
    [k \in 1..Len(keys) |->
        [index |-> <<keys[k][1], keys[k][2], 1>>]
        @@ calculate_cross_sectional_stats(Group(fs, keys[k], var))]

\* the monthly table grouped after the rows without the variable are dropped
MonthlyCrossSectionalObserved(fs, var) ==
    MonthlyRows(fs, GroupKeys(SelectSeq(fs, LAMBDA r : notna(r[var]))), var)

\* monthly_cross_sectional: groupby(['year', 'month'])[var].apply(...).unstack()
MonthlyCrossSectional(fs, var) == MonthlyRows(fs, GroupKeys(fs), var)

\* safe_ts_stats of one column of the monthly table
safe_ts_stats(series) ==
    LET clean_series == DropNa(series)
    IN  IF Len(clean_series) = 0
        THEN [mean |-> NA, std |-> NA, min |-> NA, max |-> NA, count |-> 0]
        ELSE [mean |-> Some("mean"), std |-> Statistic("std", clean_series, 2),
              min |-> Some("min"), max |-> Some("max"), count |-> Len(clean_series)]

\* ts_stats: safe_ts_stats of every column of the monthly table
TsStats(mcs) ==
    [stat |-> [c \in StatColumns |->
                  safe_ts_stats([k \in 1..Len(mcs) |->
                                    IF c = "count" THEN Some(mcs[k].count) ELSE mcs[k][c]])],
     pct |-> [p \in ExtendedPercentiles |->
                  safe_ts_stats([k \in 1..Len(mcs) |-> mcs[k].pct[p]])]]

\* overall_data = self.final_stats[var].dropna()
OverallData(fs, var) == DropNa([i \in 1..Len(fs) |-> fs[i][var]])

\* np.percentile of an empty sample raises
PercentileRaises(data) == Len(data) = 0

\* overall_stats, up to the percentiles
OverallStats(fs, var) ==
    LET overall_data == OverallData(fs, var)
    IN  [overall_count |-> Len(overall_data), data |-> overall_data,
         overall_mean |-> Statistic("mean", overall_data, 1),
         overall_std |-> Statistic("std", overall_data, 2),
         overall_min |-> Statistic("min", overall_data, 1),
         overall_max |-> Statistic("max", overall_data, 1),
         overall_skew |-> Statistic("skew", overall_data, 3),
         overall_kurt |-> Statistic("kurt", overall_data, 4),
         pct |-> [p \in ExtendedPercentiles |-> Some("percentile")]]

\* n_monthly: the first n of every month
NMonthly(fs) ==
    LET keys == GroupKeys(fs)
    IN  [k \in 1..Len(keys) |-> Head(Group(fs, keys[k], "n"))]

\* results['n']
NStats(fs) ==
    LET n_monthly == NMonthly(fs)
    IN  [mean |-> Some("mean"), std |-> Statistic("std", n_monthly, 2),
         min |-> Some("min"), max |-> Some("max"), count |-> Len(n_monthly),
         data |-> n_monthly,
         pct |-> [p \in ExtendedPercentiles |-> Some("percentile")]]

\* the loop over the variables raises when a variable has no observation at all
StatsRaise(fs) == \E v \in CrossSectionVariables : PercentileRaises(OverallData(fs, v))

\* the dictionary results the loop builds
Results(fs) ==
    [v \in CrossSectionVariables |->
        [ts |-> TsStats(MonthlyCrossSectional(fs, v)), overall |-> OverallStats(fs, v)]]
    @@ ("n" :> NStats(fs))

\* the dictionary detailed_results the loop builds
DetailedResults(fs) ==
    [v \in CrossSectionVariables |->
        [monthly_cross_sectional |-> MonthlyCrossSectional(fs, v),
         time_series_stats |-> TsStats(MonthlyCrossSectional(fs, v)),
         overall_stats |-> OverallStats(fs, v)]]
    @@ ("n" :> [monthly_values |-> NMonthly(fs),
                time_series_stats |-> [mean |-> NStats(fs).mean, std |-> NStats(fs).std]])

\* _generate_comprehensive_summary_table: one row per variable (the formatted
\* statistics of the row are those of res)
SummaryTable(res) ==
    [i \in 1..Len(Variables) |->
        LET var == Variables[i]
        IN  IF var = "n"
            THEN [Variable |-> var, Time_Series_Length |-> res[var].count]
            ELSE [Variable |-> var,
                  Time_Series_Length |-> res[var].ts.stat["mean"].count,
                  Overall_Count |-> res[var].overall.overall_count]]

\* _generate_percentile_distribution_table: one row per variable and percentile
PercentileTable(res) ==
    [vp \in CrossSectionVariables \X ExtendedPercentiles |->
        [Variable |-> vp[1], Percentile |-> vp[2],
         Overall_Value |-> res[vp[1]].overall.pct[vp[2]]]]

\* the panel after an in-place dropna of the momentum column
PanelWithMom(fs) == SelectSeq(fs, LAMBDA r : notna(r.mom))

\* self.final_stats after the call: the method never assigns it and its dropna and
\* groupby calls return new objects
PanelKept(fs) == fs

\* calculate_descriptive_stats called at position from, returning at position to:
\* the guard, then the try block
DescriptiveStatsCall(from, to) ==
    /\ pc = from
    /\ pc' = to
    /\ final_stats' = PanelKept(final_stats)
    /\ IF final_stats = <<>>
       THEN ds_ret' = Some(FALSE) /\ escaped' = escaped /\ UNCHANGED statVars
       ELSE IF StatsRaise(final_stats)
            THEN /\ ds_ret' = (IF Handler("stats") = "ds_false" THEN Some(FALSE) ELSE ds_ret)
                 /\ escaped' = (escaped \/ Handler("stats") = "escape")
                 /\ UNCHANGED statVars
            ELSE /\ results' = Some(Results(final_stats))
                 /\ detailed_results' = Some(DetailedResults(final_stats))
                 /\ summary_table' = Some(SummaryTable(Results(final_stats)))
                 /\ percentile_table' = Some(PercentileTable(Results(final_stats)))
                 /\ ds_ret' = Some(TRUE) /\ escaped' = escaped
    /\ UNCHANGED <<crsp_data, ccm_link, comp_data, crsp_ccm, comp, merged,
                   tried, tier, ci_ret, loaded>>

\* calculate_descriptive_stats called after calculate_indicators
DescriptiveStats == DescriptiveStatsCall("ci_done", "ds_done")

----------------------------------------------------------------------------
(* The join specification: the tables are the inputs *)

IdleBe == fund = NA /\ fund_out = NA

IdleMom == rets = <<>> /\ mom_out = <<>>

IdleStats ==
    results = NA /\ detailed_results = NA /\ summary_table = NA /\ percentile_table = NA

IdleFetch == tickers = NA /\ chunk_i = 0 /\ all_crsp_data = <<>> /\ gsd_ret = NA

IdleRun ==
    /\ db = NA /\ started = <<>> /\ returns = <<>> /\ closes = <<>>
    /\ run_ret = NA /\ runs = 0

IdleJoin ==
    /\ crsp_data = <<>> /\ ccm_link = <<>> /\ comp_data = <<>>
    /\ crsp_ccm = <<>> /\ comp = <<>> /\ merged = <<>> /\ final_stats = <<>>
    /\ pc = "idle" /\ tried = {} /\ tier = 0 /\ ci_ret = NA /\ ds_ret = NA
    /\ escaped = FALSE /\ loaded = FALSE

Init ==
    /\ \/ /\ loaded = TRUE
          /\ crsp_data \in CrspTables \cup {MalformedCrsp}
          /\ ccm_link \in LinkTables
          /\ comp_data \in CompTables
       \/ /\ loaded = FALSE
          /\ crsp_data = <<>> /\ ccm_link = <<>> /\ comp_data = <<>>
    /\ crsp_ccm = <<>> /\ comp = <<>> /\ merged = <<>>
    /\ final_stats = <<>>
    /\ pc = "ci_start" /\ tried = {} /\ tier = 0
    /\ ci_ret = NA /\ ds_ret = NA /\ escaped = FALSE
    /\ IdleBe /\ IdleMom /\ IdleStats /\ IdleFetch /\ IdleRun

Next ==
    \/ CiGuard /\ UNCHANGED <<beVars, momVars, statVars, fetchVars, runVars>>
    \/ LinkStep /\ UNCHANGED <<beVars, momVars, statVars, fetchVars, runVars>>
    \/ CompStep /\ UNCHANGED <<beVars, momVars, statVars, fetchVars, runVars>>
    \/ Tier1Step /\ UNCHANGED <<beVars, momVars, statVars, fetchVars, runVars>>
    \/ Tier2Step /\ UNCHANGED <<beVars, momVars, statVars, fetchVars, runVars>>
    \/ Tier3Step /\ UNCHANGED <<beVars, momVars, statVars, fetchVars, runVars>>
    \/ FilterStep /\ UNCHANGED <<beVars, momVars, statVars, fetchVars, runVars>>
    \/ IndicatorsStep /\ UNCHANGED <<beVars, momVars, statVars, fetchVars, runVars>>
    \/ DescriptiveStats /\ UNCHANGED <<beVars, momVars, fetchVars, runVars>>

Spec == Init /\ [][Next]_vars

----------------------------------------------------------------------------
(* The book-equity chain on one Compustat record *)

MaxAmount == 2

Amounts == {NA} \cup {Some(v) : v \in 0..MaxAmount}

\* the query keeps the records with a total assets value only
FundRecords ==
    [at : Amounts \ {NA}, lt : Amounts, pstk : Amounts, ceq : Amounts,
     txditc : Amounts, pstkrv : Amounts, seq : Amounts, pstkl : Amounts]

InitBe ==
    /\ fund \in FundRecords
    /\ fund_out = NA
    /\ IdleJoin /\ IdleMom /\ IdleStats /\ IdleFetch /\ IdleRun

\* lines 193-197 applied to the record
ComputeBe ==
    /\ fund_out = NA
    /\ fund_out' = [ps |-> PreferredStock(fund), se |-> StockholdersEquity(fund),
                    be |-> BookEquity(fund)]
    /\ UNCHANGED fund

NextBe == ComputeBe /\ UNCHANGED <<joinVars, momVars, statVars, fetchVars, runVars>>

SpecBe == InitBe /\ [][NextBe]_vars

----------------------------------------------------------------------------
(* The momentum column of one security *)

MaxMonths == 13

RetNumerators == {0, 1}

InitMom ==
    /\ rets \in UNION {[1..n -> {Some(k) : k \in RetNumerators}] : n \in 1..MaxMonths}
    /\ mom_out = <<>>
    /\ IdleJoin /\ IdleBe /\ IdleStats /\ IdleFetch /\ IdleRun

\* lines 394-399 applied to the rows of one permno
ComputeMom ==
    /\ mom_out = <<>>
    /\ mom_out' = MomColumn(rets)
    /\ UNCHANGED rets

NextMom == ComputeMom /\ UNCHANGED <<joinVars, beVars, statVars, fetchVars, runVars>>

SpecMom == InitMom /\ [][NextMom]_vars

----------------------------------------------------------------------------
(* calculate_descriptive_stats on a final panel, called twice *)

MaxPanelRows == 3

StatMonths == {<<2000, 2, 29>>, <<2000, 3, 31>>}

\* a row of final_stats: ret, size and bm are present; mom is present once the
\* permno has eight months of returns behind it, whose rows are not in the panel
\* when their price is missing
StatRow(p, d, mom) ==
    [permno |-> p, date |-> d, year |-> Year(d), month |-> Month(d),
     ret |-> Some(p), size |-> Some([log |-> 6]), bm |-> Some(<<5000, 6>>),
     mom |-> mom, n |-> 0]

StatCells == {StatRow(p, d, mom) : p \in Permnos, d \in StatMonths, mom \in {NA, Some(0)}}

\* the column n of a panel none of whose months lost a row to the final dropna
WithCounts(rows) ==
    [i \in 1..Len(rows) |->
        [rows[i] EXCEPT !.n = Cardinality({j \in 1..Len(rows) :
                                             rows[j].year = rows[i].year
                                             /\ rows[j].month = rows[i].month})]]

\* the panels of at most MaxPanelRows rows, unique on (permno, date) and sorted on
\* it, the empty panel included
StatPanels ==
    {WithCounts(SortBy(SetToSeq(S), "permno_date")) :
        S \in {T \in SUBSET StatCells :
                 /\ Cardinality(T) <= MaxPanelRows
                 /\ \A a, b \in T : (a.permno = b.permno /\ a.date = b.date) => a = b}}

\* calculate_indicators has returned and left the panel; the tables it was
\* computed from are not kept here
InitStats ==
    /\ final_stats \in StatPanels
    /\ pc = "ci_done"
    /\ ci_ret = (IF final_stats = <<>> THEN Some(FALSE) ELSE Some(TRUE))
    /\ loaded = TRUE
    /\ crsp_data = <<>> /\ ccm_link = <<>> /\ comp_data = <<>>
    /\ crsp_ccm = <<>> /\ comp = <<>> /\ merged = <<>>
    /\ tried = {} /\ tier = 0 /\ ds_ret = NA /\ escaped = FALSE
    /\ IdleBe /\ IdleMom /\ IdleStats /\ IdleFetch /\ IdleRun

\* a second call of calculate_descriptive_stats right after the first
DescriptiveStatsAgain == DescriptiveStatsCall("ds_done", "ds_again")

NextStats ==
    \/ DescriptiveStats /\ UNCHANGED <<beVars, momVars, fetchVars, runVars>>
    \/ DescriptiveStatsAgain /\ UNCHANGED <<beVars, momVars, fetchVars, runVars>>

SpecStats == InitStats /\ [][NextStats]_vars

----------------------------------------------------------------------------
(* get_stock_data *)

\* chunk_size = 500
ChunkSize == 500

MaxTickers == 501

\* lengths of the ticker list: empty, one ticker, one full chunk, more than a chunk
TickerCounts == {0, 1, ChunkSize, MaxTickers}

\* what the link query can return: linkenddt is NULL on a link that is still open
LinkFetches ==
    {<<>>,
     <<[gvkey |-> 1, permno |-> 1, linkdt |-> Some(<<1990, 1, 1>>), linkenddt |-> NA]>>}

\* what the CRSP query of one chunk can return
ChunkFetches == {<<>>} \cup {<<ObsRow(p, <<2000, 2, 29>>)>> : p \in Permnos}

\* what the Compustat query can return
CompFetches ==
    {<<>>} \cup {<<[gvkey |-> 1, datadate |-> <<1999, 8, 31>>] @@ f>> : f \in Profiles}

\* linkenddt.fillna('2024-12-31')
FillLinkEnd(link) ==
    [i \in 1..Len(link) |->
        [link[i] EXCEPT !.linkenddt = fillna(link[i].linkenddt, Some(OpenEnded))]]

\* pd.concat(all_crsp_data, ignore_index=True)
RECURSIVE Concat(_)
Concat(chunks) == IF chunks = <<>> THEN <<>> ELSE Head(chunks) \o Concat(Tail(chunks))

GsdReturn(v) == pc' = "gsd_done" /\ gsd_ret' = Some(v)

GsdGoto(l) == pc' = l /\ gsd_ret' = gsd_ret

\* the guard on the ticker list
GsdGuard ==
    /\ pc = "gsd_start"
    /\ IF tickers = NA \/ Val(tickers) = 0 THEN GsdReturn(FALSE) ELSE GsdGoto("gsd_link")
    /\ UNCHANGED <<crsp_data, ccm_link, comp_data, loaded, tickers, chunk_i,
                   all_crsp_data, db>>

\* step 1, get_ccm_link: the query raises (always so without a connection) and
\* get_ccm_link returns False, or it answers and the open links get an end date
GetCcmLink ==
    /\ pc = "gsd_link"
    /\ \/ /\ GsdReturn(FALSE)
          /\ UNCHANGED <<ccm_link, chunk_i, all_crsp_data>>
       \/ /\ db # NA
          /\ \E t \in LinkFetches : ccm_link' = FillLinkEnd(t)
          /\ chunk_i' = 0 /\ all_crsp_data' = <<>>
          /\ GsdGoto("gsd_crsp")
    /\ UNCHANGED <<crsp_data, comp_data, loaded, tickers, db>>

\* step 2, one turn of the loop over the chunks: the query raises, or its result
\* is kept when it is not empty
CrspChunk ==
    /\ pc = "gsd_crsp"
    /\ chunk_i < Val(tickers)
    /\ \/ /\ GsdReturn(FALSE)
          /\ UNCHANGED <<chunk_i, all_crsp_data>>
       \/ /\ \E t \in ChunkFetches :
                all_crsp_data' = IF t # <<>> THEN Append(all_crsp_data, t) ELSE all_crsp_data
          /\ chunk_i' = chunk_i + ChunkSize
          /\ GsdGoto("gsd_crsp")
    /\ UNCHANGED <<crsp_data, ccm_link, comp_data, loaded, tickers, db>>

\* step 2 after the loop: no chunk kept: return False; else concat and drop_duplicates
CrspConcat ==
    /\ pc = "gsd_crsp"
    /\ chunk_i >= Val(tickers)
    /\ IF all_crsp_data = <<>>
       THEN GsdReturn(FALSE) /\ crsp_data' = crsp_data
       ELSE /\ crsp_data' = DropDuplicates(Concat(all_crsp_data), "permno_date")
            /\ GsdGoto("gsd_comp")
    /\ UNCHANGED <<ccm_link, comp_data, loaded, tickers, chunk_i, all_crsp_data, db>>

\* step 3: the Compustat query raises, or its result is stored and the method
\* returns True
CompFetch ==
    /\ pc = "gsd_comp"
    /\ \/ /\ GsdReturn(FALSE)
          /\ UNCHANGED <<comp_data, loaded>>
       \/ /\ \E t \in CompFetches : comp_data' = t
          /\ loaded' = TRUE
          /\ GsdReturn(TRUE)
    /\ UNCHANGED <<crsp_data, ccm_link, tickers, chunk_i, all_crsp_data, db>>

\* the object after load_tickers (or not), with or without a connection
InitFetch ==
    /\ tickers \in {NA} \cup {Some(k) : k \in TickerCounts}
    /\ db \in {NA, Some(0)}
    /\ pc = "gsd_start"
    /\ chunk_i = 0 /\ all_crsp_data = <<>> /\ gsd_ret = NA
    /\ crsp_data = <<>> /\ ccm_link = <<>> /\ comp_data = <<>>
    /\ crsp_ccm = <<>> /\ comp = <<>> /\ merged = <<>> /\ final_stats = <<>>
    /\ tried = {} /\ tier = 0 /\ ci_ret = NA /\ ds_ret = NA
    /\ escaped = FALSE /\ loaded = FALSE
    /\ started = <<>> /\ returns = <<>> /\ closes = <<>> /\ run_ret = NA /\ runs = 0
    /\ IdleBe /\ IdleMom /\ IdleStats

FetchFrame ==
    UNCHANGED <<crsp_ccm, comp, merged, final_stats, tried, tier, ci_ret, ds_ret, escaped,
                started, returns, closes, run_ret, runs, beVars, momVars, statVars>>

NextFetch ==
    \/ GsdGuard /\ FetchFrame
    \/ GetCcmLink /\ FetchFrame
    \/ CrspChunk /\ FetchFrame
    \/ CrspConcat /\ FetchFrame
    \/ CompFetch /\ FetchFrame

SpecFetch == InitFetch /\ [][NextFetch]_vars

----------------------------------------------------------------------------
(* run_analysis *)

MaxRuns == 4

\* the stages in the order of the calls
StageOrder ==
    <<"connect_wrds", "load_tickers", "get_stock_data", "calculate_indicators",
      "calculate_descriptive_stats", "save_results">>

\* how a stage call can end: every stage returns True or False; save_results can
\* also raise, from os.makedirs ahead of its try block
StageOutcomes(stage) ==
    IF stage = "save_results" THEN {"True", "False", "raise"} ELSE {"True", "False"}

\* a call of run_analysis on the object, the first one or a later one
RunAnalysis ==
    /\ pc \in {"constructed", "returned"}
    /\ runs < MaxRuns
    /\ runs' = runs + 1
    /\ started' = <<>> /\ returns' = <<>> /\ closes' = <<>> /\ run_ret' = NA
    /\ pc' = "connect_wrds"
    /\ db' = db

\* connect_wrds: wrds.Connection() answers and the new connection is stored in
\* self.db, or it raises and self.db keeps what it held
ConnectWrds ==
    /\ pc = "connect_wrds"
    /\ started' = Append(started, "connect_wrds")
    /\ \E ok \in BOOLEAN :
          IF ok
          THEN /\ db' = Some(runs)
               /\ returns' = Append(returns, TRUE)
               /\ pc' = "load_tickers" /\ run_ret' = run_ret
          ELSE /\ db' = db
               /\ returns' = Append(returns, FALSE)
               /\ pc' = "finally" /\ run_ret' = Some(FALSE)
    /\ UNCHANGED <<closes, runs>>

\* a stage whose return value is not looked at
RunStageUnchecked(k) ==
    /\ pc = StageOrder[k]
    /\ started' = Append(started, StageOrder[k])
    /\ \E out \in StageOutcomes(StageOrder[k]) :
          /\ returns' = IF out = "raise" THEN returns ELSE Append(returns, out = "True")
          /\ IF k < Len(StageOrder) /\ out # "raise"
             THEN pc' = StageOrder[k + 1] /\ run_ret' = run_ret
             ELSE pc' = "finally" /\ run_ret' = Some(out = "True")
    /\ UNCHANGED <<db, closes, runs>>

\* stage k of run_analysis, k > 1: the call, then `if not ...: return False`; an
\* exception goes to the except clause, which returns False; after the last
\* stage the summary is printed and True returned
RunStage(k) ==
    /\ pc = StageOrder[k]
    /\ started' = Append(started, StageOrder[k])
    /\ \E out \in StageOutcomes(StageOrder[k]) :
          /\ returns' = IF out = "raise" THEN returns ELSE Append(returns, out = "True")
          /\ IF out = "True" /\ k < Len(StageOrder)
             THEN pc' = StageOrder[k + 1] /\ run_ret' = run_ret
             ELSE pc' = "finally" /\ run_ret' = Some(out = "True")
    /\ UNCHANGED <<db, closes, runs>>

LoadTickers == RunStage(2)

GetStockData == RunStage(3)

CalculateIndicators == RunStage(4)

CalculateDescriptiveStats == RunStage(5)

SaveResults == RunStage(6)

\* the finally clause: `if self.db: self.db.close()`
Finally ==
    /\ pc = "finally"
    /\ closes' = IF db # NA THEN Append(closes, Val(db)) ELSE closes
    /\ pc' = "returned"
    /\ UNCHANGED <<db, started, returns, run_ret, runs>>

\* the object after construction
InitRun ==
    /\ pc = "constructed"
    /\ crsp_data = <<>> /\ ccm_link = <<>> /\ comp_data = <<>>
    /\ crsp_ccm = <<>> /\ comp = <<>> /\ merged = <<>> /\ final_stats = <<>>
    /\ tried = {} /\ tier = 0 /\ ci_ret = NA /\ ds_ret = NA
    /\ escaped = FALSE /\ loaded = FALSE
    /\ IdleBe /\ IdleMom /\ IdleStats /\ IdleFetch /\ IdleRun

RunFrame ==
    UNCHANGED <<crsp_data, ccm_link, comp_data, crsp_ccm, comp, merged, final_stats,
                tried, tier, ci_ret, ds_ret, escaped, loaded,
                beVars, momVars, statVars, fetchVars>>

NextRun ==
    \/ RunAnalysis /\ RunFrame
    \/ ConnectWrds /\ RunFrame
    \/ LoadTickers /\ RunFrame
    \/ GetStockData /\ RunFrame
    \/ CalculateIndicators /\ RunFrame
    \/ CalculateDescriptiveStats /\ RunFrame
    \/ SaveResults /\ RunFrame
    \/ Finally /\ RunFrame

SpecRun == InitRun /\ [][NextRun]_vars

----------------------------------------------------------------------------
(* Properties of the join *)

\* the Compustat records that carry a positive book equity, with their
\* availability dates, as fetched (before sorting and de-duplication)
Fundamentals == CompWithBe(comp_data)

\* the joined panel: the rows of merged that carry a book equity
JoinedRows == {merged[i] : i \in {j \in 1..Len(merged) : notna(merged[j].be)}}

StaleDays(r) == DayNumber(r.date) - DayNumber(Val(r.available_date))

\* C1: no look-ahead: on every row of the joined panel, whichever tier produced it,
\* the availability date (datadate + 6 months) of the record whose book equity is
\* attached is not after the row's observation date.
C1_NoLookAhead ==
    \A r \in JoinedRows : DateLE(Val(r.available_date), r.date)

\* C2: as-of selection: on every row matched by tier 1 or tier 2 the attached book
\* equity is that of a record of the row's gvkey whose availability date is the
\* latest one not after the observation date; no record of that gvkey is available
\* strictly later and still on or before the observation date.
C2_AsOfSelection ==
    tier \in {1, 2} =>
        \A r \in JoinedRows :
            \E k \in Range(Fundamentals) :
                /\ k.gvkey = r.gvkey
                /\ k.be = r.be
                /\ k.available_date = Val(r.available_date)
                /\ DateLE(k.available_date, r.date)
                /\ \A k2 \in Range(Fundamentals) :
                      (k2.gvkey = r.gvkey /\ DateLE(k2.available_date, r.date))
                          => DateLE(k2.available_date, k.available_date)

\* C2 witness: tier 2 matched a row whose gvkey has an earlier record as well, and
\* the observation falls on the very day the chosen record becomes available
C2_Witness ==
    /\ tier = 2
    /\ \E r \in JoinedRows :
          /\ Val(r.available_date) = r.date
          /\ \E k \in Range(Fundamentals) :
                k.gvkey = r.gvkey /\ DateLT(k.available_date, r.date)

\* C3: an observation whose gvkey has no record available on or before the
\* observation date is in the joined panel under no tier.
C3_NoRecordNoRow ==
    \A r \in JoinedRows :
        \E k \in Range(Fundamentals) :
            k.gvkey = r.gvkey /\ DateLE(k.available_date, r.date)

\* (permno, date, gvkey, be) of the matched rows of a tier's result
Assignments(rows) ==
    {<<rows[i].permno, rows[i].date, rows[i].gvkey, rows[i].be>> :
        i \in {j \in 1..Len(rows) : notna(rows[j].be)}}

\* sorted, unique keys, at most one statement per (gvkey, calendar year)
CleanInputs ==
    /\ ~Tier1Raises(crsp_ccm, comp)
    /\ \A i, j \in 1..Len(Fundamentals) :
          (i # j /\ Fundamentals[i].gvkey = Fundamentals[j].gvkey)
              => Year(Fundamentals[i].datadate) # Year(Fundamentals[j].datadate)
    /\ \A i, j \in 1..Len(crsp_ccm) :
          i # j => <<crsp_ccm[i].permno, crsp_ccm[i].date>>
                       # <<crsp_ccm[j].permno, crsp_ccm[j].date>>

\* C4: tier agreement: on clean inputs the three tiers, each applied to the same
\* prepared tables, give the same matched rows with the same book equity.
C4_TierAgreement ==
    (pc = "tier1" /\ CleanInputs) =>
        /\ Assignments(Tier1Rows(crsp_ccm, comp)) = Assignments(Tier2Rows(crsp_ccm, comp))
        /\ Assignments(Tier1Rows(crsp_ccm, comp)) = Assignments(Tier3Rows(crsp_ccm, comp))

\* C5: fallback ladder: calculate_indicators returns False out of the join stage
\* only after all three tiers have been attempted.
\* (stated for a run whose prepared Compustat table is not empty and whose
\* characteristics step did not raise, so that the False comes from the join)
C5_FailureAfterAllTiers ==
    (pc = "ci_done" /\ ci_ret = Some(FALSE) /\ 1 \in tried /\ comp # <<>>
        /\ ~IndicatorsRaise(merged))
        => tried = {1, 2, 3}

Outcome == {Some(TRUE), Some(FALSE)}

\* C6: fail-soft boundary: no exception leaves calculate_indicators or
\* calculate_descriptive_stats, whatever the tables hold and whichever join tier
\* failed; each call ends with an explicit True or False.
C6_FailSoft ==
    /\ ~escaped
    /\ pc \in {"ci_done", "ds_done"} => ci_ret \in Outcome
    /\ pc = "ds_done" => ds_ret \in Outcome

\* C6 witness: tiers 1 and 2 both raised, tier 3 produced the panel, the text in the
\* prc column raised in the characteristics step, and both calls returned False
C6_Witness ==
    /\ pc = "ds_done"
    /\ tried = {1, 2, 3}
    /\ IndicatorsRaise(merged)
    /\ ci_ret = Some(FALSE) /\ ds_ret = Some(FALSE)
    /\ ~escaped

\* C7: link resolution picks one: the joined panel holds at most one row per
\* (permno, date), also when two link records of the permno with different gvkeys
\* both cover the date.
C7_OneRowPerObservation ==
    \A r1, r2 \in JoinedRows :
        (r1.permno = r2.permno /\ r1.date = r2.date) => r1 = r2

\* C8: bounded staleness in every tier: on every row of the joined panel the
\* observation date is at most the staleness window after the availability date of
\* the matched record.
C8_BoundedStaleness ==
    \A r \in JoinedRows : StaleDays(r) <= ToleranceDays

----------------------------------------------------------------------------
(* Properties of the book-equity chain and of the momentum column *)

\* the first present candidate of a list, else the default
RECURSIVE FirstPresent(_, _)
FirstPresent(cands, default) ==
    IF cands = <<>> THEN default
    ELSE IF notna(Head(cands)) THEN Val(Head(cands))
         ELSE FirstPresent(Tail(cands), default)

PsResolved(r) == FirstPresent(<<r.pstkrv, r.pstkl, r.pstk>>, 0)

\* C9 as stated: ps is the first present of (pstkrv, pstkl, pstk) else 0; se is the
\* first present of (seq, ceq + ps, at - lt) else 0, the second candidate adding
\* the resolved preferred stock; be = se + txditc (0 if missing) - ps.
C9_ChainWithResolvedPreferred ==
    fund_out # NA =>
        /\ fund_out.ps = Some(PsResolved(fund))
        /\ fund_out.se =
              Some(FirstPresent(<<fund.seq,
                                  IF notna(fund.ceq)
                                  THEN Some(Val(fund.ceq) + PsResolved(fund)) ELSE NA,
                                  IF notna(fund.lt)
                                  THEN Some(Val(fund.at) - Val(fund.lt)) ELSE NA>>, 0))
        /\ fund_out.be =
              Some(Val(fund_out.se) + FirstPresent(<<fund.txditc>>, 0) - Val(fund_out.ps))

\* C9 amended: as stated, except that the second candidate of se is ceq plus the
\* par value pstk (0 if pstk is missing), not ceq plus the resolved preferred stock.
C9_ChainWithParValue ==
    fund_out # NA =>
        /\ fund_out.ps = Some(PsResolved(fund))
        /\ fund_out.se =
              Some(FirstPresent(<<fund.seq,
                                  IF notna(fund.ceq)
                                  THEN Some(Val(fund.ceq) + FirstPresent(<<fund.pstk>>, 0))
                                  ELSE NA,
                                  IF notna(fund.lt)
                                  THEN Some(Val(fund.at) - Val(fund.lt)) ELSE NA>>, 0))
        /\ fund_out.be =
              Some(Val(fund_out.se) + FirstPresent(<<fund.txditc>>, 0) - Val(fund_out.ps))

\* C9 witness: seq is missing, ceq is present, and the redemption value differs from
\* the par value, so the two readings of the second candidate differ
C9_Witness ==
    /\ fund_out # NA
    /\ ~notna(fund.seq) /\ notna(fund.ceq)
    /\ notna(fund.pstkrv) /\ notna(fund.pstk) /\ fund.pstkrv # fund.pstk
    /\ fund_out.se = Some(Val(fund.ceq) + Val(fund.pstk))

\* C10: skip-month momentum: with exactly 12 known monthly returns r1..r12, mom of
\* the 12th row is the compounded return of r1..r11 (r12 not in the product) minus
\* the lag-1 return r11 (numerators over RetDen^Window).
C10_SkipMonthMomentum ==
    (Len(rets) = Window /\ mom_out # <<>>) =>
        mom_out[Window] =
            Some((ProdOnePlus(SubSeq(rets, 1, Window - 1)) - Pow(RetDen, Window - 1)) * RetDen
                 - Val(rets[Window - 1]) * Pow(RetDen, Window - 1))

----------------------------------------------------------------------------
(* Properties of the final panel *)

\* the distinct permnos among the rows of a panel that fall in (year, month) of date d
PermnosOfMonth(rows, d) ==
    {rows[j].permno : j \in {k \in 1..Len(rows) :
                                Year(rows[k].date) = Year(d) /\ Month(rows[k].date) = Month(d)}}

\* C11: period_count: on every row of the final panel n equals the number of
\* distinct permnos observed in the row's (year, month), counted over the final
\* panel or over the joined panel the column is computed on, and all rows of one
\* (year, month) carry the same n.
C11_PeriodCount ==
    (pc = "ci_done" /\ ci_ret = Some(TRUE)) =>
        /\ \A i \in 1..Len(final_stats) :
              \/ final_stats[i].n = Cardinality(PermnosOfMonth(final_stats, final_stats[i].date))
              \/ final_stats[i].n = Cardinality(PermnosOfMonth(merged, final_stats[i].date))
        /\ \A i, j \in 1..Len(final_stats) :
              (final_stats[i].year = final_stats[j].year
               /\ final_stats[i].month = final_stats[j].month)
              => final_stats[i].n = final_stats[j].n

\* a joined row that has a return, a price and a share count, hence ret, size, bm
CompleteRow(r) == notna(r.ret) /\ notna(r.prc) /\ notna(r.shrout) /\ notna(r.be)

\* C16: final-panel filter: every row of final_stats has ret, size and bm; a joined
\* row missing one of the three is absent; the joined rows that miss nothing but
\* mom are all retained.
C16_FinalPanelFilter ==
    (pc = "ci_done" /\ ci_ret = Some(TRUE)) =>
        /\ \A i \in 1..Len(final_stats) :
              notna(final_stats[i].ret) /\ notna(final_stats[i].size)
              /\ notna(final_stats[i].bm)
        /\ \A j \in 1..Len(merged) :
              CompleteRow(merged[j]) <=>
                  \E i \in 1..Len(final_stats) :
                      /\ final_stats[i].permno = merged[j].permno
                      /\ final_stats[i].date = merged[j].date
        /\ Len(final_stats) = Cardinality({j \in 1..Len(merged) : CompleteRow(merged[j])})

\* C16 witness: a joined row without a price was dropped and a row without mom kept
C16_Witness ==
    /\ pc = "ci_done" /\ ci_ret = Some(TRUE)
    /\ \E j \in 1..Len(merged) : ~notna(merged[j].prc)
    /\ \E i \in 1..Len(final_stats) : ~notna(final_stats[i].mom)

\* C17: no valid observation is lost in the join: under tiers 1 and 2 every CRSP
\* observation with a link record valid on its date, whose gvkey has a record with
\* a positive book equity available on or before the date and within the staleness
\* window, has a row in the joined panel, also when another permno maps to the
\* same gvkey on the same date.
C17_NoObservationLost ==
    (pc = "indicators" /\ tier \in {1, 2}) =>
        \A i \in 1..Len(crsp_data) : \A l \in Range(ccm_link) :
            LET c == crsp_data[i]
            IN  (/\ l.permno = c.permno
                 /\ notna(l.linkdt) /\ DateLE(Val(l.linkdt), c.date)
                 /\ notna(l.linkenddt) /\ DateLE(c.date, Val(l.linkenddt))
                 /\ \E k \in Range(Fundamentals) :
                        /\ k.gvkey = l.gvkey
                        /\ DateLE(k.available_date, c.date)
                        /\ DayNumber(c.date) - DayNumber(k.available_date) <= ToleranceDays)
                => \E r \in JoinedRows : r.permno = c.permno /\ r.date = c.date

----------------------------------------------------------------------------
(* Properties of calculate_descriptive_stats *)

StatsReturned == pc \in {"ds_done", "ds_again"}

\* C12: zero valid observations overall: when mom is missing on every row of a
\* non-empty final panel, calculate_descriptive_stats returns True and results
\* reports mom with an overall count of 0 and missing overall statistics, next to
\* the statistics of ret, size and bm.
C12_ZeroValidObservations ==
    (StatsReturned /\ final_stats # <<>> /\ OverallData(final_stats, "mom") = <<>>) =>
        /\ ds_ret = Some(TRUE)
        /\ results # NA
        /\ Val(results)["mom"].overall.overall_count = 0
        /\ Val(results)["mom"].overall.overall_mean = NA
        /\ \A v \in {"ret", "size", "bm"} : Val(results)[v].overall.overall_count > 0

PanelMonths == {<<final_stats[i].year, final_stats[i].month>> : i \in 1..Len(final_stats)}

\* the variable is missing on every row of the month
NoObservation(var, ym) ==
    \A i \in 1..Len(final_stats) :
        (final_stats[i].year = ym[1] /\ final_stats[i].month = ym[2])
        => ~notna(final_stats[i][var])

\* C15: complete monthly index: for ret, size, bm and mom the monthly table has
\* exactly one row for every (year, month) of the final panel and no other row; the
\* row of a month without any observation of the variable has count 0 and every
\* other statistic missing.
C15_CompleteMonthlyIndex ==
    (StatsReturned /\ ds_ret = Some(TRUE)) =>
        \A v \in CrossSectionVariables :
            LET t == Val(detailed_results)[v].monthly_cross_sectional
            IN  /\ \A ym \in PanelMonths :
                      Cardinality({k \in 1..Len(t) : t[k].index = <<ym[1], ym[2], 1>>}) = 1
                /\ Len(t) = Cardinality(PanelMonths)
                /\ \A k \in 1..Len(t) :
                      NoObservation(v, <<t[k].index[1], t[k].index[2]>>) =>
                          /\ t[k].count = 0
                          /\ \A c \in StatColumns \ {"count"} : t[k][c] = NA
                          /\ \A p \in ExtendedPercentiles : t[k].pct[p] = NA

\* C15 witness: the call succeeded on a panel with a month in which mom is missing
\* on every row
C15_Witness ==
    /\ pc = "ds_done" /\ ds_ret = Some(TRUE)
    /\ \E ym \in PanelMonths : NoObservation("mom", ym)

----------------------------------------------------------------------------
(* Properties of get_stock_data and run_analysis *)

\* C13: EmptyInput aborts the fetch stage: get_stock_data ends with True or False,
\* and with True only when the ticker list is not empty and both the security
\* series and the fundamentals series it fetched are non-empty.
C13_EmptyInputAborts ==
    pc = "gsd_done" =>
        /\ gsd_ret \in Outcome
        /\ gsd_ret = Some(TRUE) =>
              /\ tickers # NA /\ Val(tickers) > 0
              /\ crsp_data # <<>>
              /\ comp_data # <<>>

\* the stages of the current call that have returned, and their common value
AllTrue(rs) == \A i \in 1..Len(rs) : rs[i] = TRUE

\* C18: stage ordering in run_analysis: the stages start in the fixed order; a stage
\* is started only when every earlier stage has returned True; after the first stage
\* that returns False no later stage is started; run_analysis returns True only if
\* all six stages returned True.
C18_StageOrdering ==
    /\ Len(started) <= Len(StageOrder)
    /\ \A i \in 1..Len(started) : started[i] = StageOrder[i]
    /\ Len(returns) <= Len(started)
    /\ \A i \in 2..Len(started) : Len(returns) >= i - 1 /\ AllTrue(SubSeq(returns, 1, i - 1))
    /\ \A i \in 1..Len(returns) : returns[i] = FALSE => Len(started) = i
    /\ run_ret = Some(TRUE) => (Len(returns) = Len(StageOrder) /\ AllTrue(returns))

\* C18 witness: a call returned False after calculate_indicators returned False,
\* with four stages started
C18_Witness ==
    /\ pc = "returned" /\ run_ret = Some(FALSE)
    /\ started = SubSeq(StageOrder, 1, 4)
    /\ returns = <<TRUE, TRUE, TRUE, FALSE>>

\* connect_wrds succeeded in the current call
Connected == returns # <<>> /\ returns[1] = TRUE

\* C19: connection release: when connect_wrds succeeded in a call of run_analysis,
\* the connection it opened is closed exactly once before the call returns,
\* whichever later stage failed or raised; when connect_wrds failed, close is not
\* called during the call.
C19_ConnectionRelease ==
    pc = "returned" =>
        IF Connected THEN closes = <<runs>> ELSE closes = <<>>

====
